---- MODULE Spec2Model ----
(***************************************************************************)
(* Model of fhir-validator-js: the FHIRValidator class (src/src/validator.js)*)
(* with the environment it talks to: the validator server on the fixed     *)
(* port 3500, the child processes the instances spawn, and the HTTP calls  *)
(* in flight.                                                              *)
(*                                                                         *)
(* Spec    : one instance used by concurrent callers, with every move of   *)
(*           the environment (servers and children start and stop, calls   *)
(*           fail); validate() is given one resource and answered with its *)
(*           outcome.                                                      *)
(* SpecTwo : two instances used by one caller that awaits every call, as   *)
(*           test/test.js does; the only servers are the children.         *)
(* SpecV   : one instance against a running server, validate() given every *)
(*           shape of input and answered with any sequence of outcomes     *)
(*           (permuted, short, long, without file info).                   *)
(***************************************************************************)
EXTENDS Integers, Sequences, FiniteSets, TLC

(* ------------------------------ bounds --------------------------------- *)
\* HTTP calls that may be in flight at the same time
MaxInFlight == 2
\* largest collection handed to validate()
MaxItems == 2
\* timer handles setInterval can hand out to one instance
MaxTimers == 2

(* ------------------------- program constants --------------------------- *)
\* validator.js:38  const maxRetries = 10
maxRetries == 10

(* ------------------------------ values --------------------------------- *)
\* the instances of one runtime (validator1 and validator2 of test/test.js)
Instances == {"v1", "v2"}
Null == "<null>"
Undefined == "<undefined>"
SessionIds == {"S1", "S2"}
\* JavaScript truthiness of a session id: null, undefined and "" are falsy
Falsy(x) == x \in {Null, Undefined, ""}

\* the process id the operating system gives the child spawned by instance i
ChildPid(i) == "pid-" \o i

\* who answers on the port: nobody, a server this runtime did not spawn, or
\* the child spawned by an instance (named by its process id)
NoServer == "none"
ExtServer == "ext"

\* this.keepAliveInterval = null; timer handles are numbered from 1
NoTimer == 0

VARIABLES
    cliContext,        \* this.cliContext
    sessionId,         \* this.sessionId
    keepAliveInterval, \* this.keepAliveInterval: the stored timer handle
    pid,               \* this.pid
    process,           \* this.process: handle of the spawned child
    phase,             \* where startValidator() of the instance stands
    serverReady,       \* the closure variable of startValidator()
    activeTimers,      \* the setInterval timers of the instance not yet cleared
    child,             \* the operating system's view of each spawned child
    extUp,             \* a validator server not spawned here listens on the port
    inflight,          \* HTTP calls sent and not yet answered
    last               \* what the last step did and returned

vars == <<cliContext, sessionId, keepAliveInterval, pid, process, phase,
          serverReady, activeTimers, child, extUp, inflight, last>>

instVars == <<cliContext, sessionId, keepAliveInterval, pid, process, phase,
              serverReady, activeTimers>>

(* --------------------------- the environment --------------------------- *)
\* the server that answers on the port now
ServerNow ==
    IF extUp THEN ExtServer
    ELSE IF \E i \in Instances : child[i] = "listening"
         THEN ChildPid(CHOOSE i \in Instances : child[i] = "listening")
         ELSE NoServer

PortFree == ServerNow = NoServer

\* cliContext: whether the constructor was given one, and its profiles field
NoProfiles == <<>>
CliContexts == [given : BOOLEAN, profiles : {NoProfiles, <<"p">>},
                txServer : {Undefined}]

\* POST http://localhost:3500/validate: a call in flight. sessionId is
\* Undefined when the body carries no sessionId field; batchId is 0 and n is 1
\* for the placeholder payloads of initializeSession and keep-alive.
\* answerable: the server the request went to is still running.
NoCall ==
    [inst |-> "", kind |-> "", sessionId |-> Undefined, batchId |-> 0,
     isArray |-> FALSE, n |-> 0, answerable |-> FALSE]

NoResponse == [sessionId |-> Undefined, outcomes |-> <<>>]

NoResult == [isArray |-> FALSE, items |-> <<>>]

\* the port in the URL of every request: the health check probes
\* http://localhost:3500/validator/version, and initializeSession(),
\* validate() and the keep-alive ping post to http://localhost:3500/validate;
\* the child is spawned without a port argument and listens on the same port
ServerPort == 3500

\* (mutant) the requests go to a port taken from the ephemeral range
RequestPortEphemeral(kind) == 55200

RequestPort(kind) == ServerPort

\* what a step reports: the operation, the instance, the error it raised
\* ("" for none), whether it sent an HTTP request (and then the call, the
\* cliContext in its body and the server it went to), the response it
\* handled, the mismatches it logged and the value it returned
\* (healthCheck: "" when the step made none, else "up" or "down", with the
\* number of probes it issued; caught: the message of the error a catch block
\* received, "" when the step caught none; profiles: the profiles argument of
\* a validate() that sent a request; port: the port of the URL the step
\* addressed, 0 when it addressed none; resource: what a validate() that sent
\* a request was given as its resource argument; txServer: the txServer of the
\* cliContext a constructor was given)
Did(op, i, err, result) ==
    [op |-> op, inst |-> i, error |-> err, sent |-> FALSE, port |-> 0,
     resource |-> "",
     healthCheck |-> "", probes |-> 0, caught |-> "", profiles |-> NoProfiles,
     call |-> NoCall, sentContext |-> [given |-> FALSE, profiles |-> NoProfiles,
                      txServer |-> Undefined],
     txServer |-> Undefined,
     target |-> NoServer, response |-> NoResponse, anomalies |-> 0,
     result |-> result]

Checked(op, i, err, hc) ==
    [Did(op, i, err, NoResult) EXCEPT !.healthCheck = IF hc.up THEN "up" ELSE "down",
                                      !.probes = hc.probes,
                                      !.port = RequestPort("health")]

\* (mutant) every instance addresses a server of its own
SentToOwnChild(op, i, c, ctx) ==
    [Did(op, i, "", NoResult) EXCEPT !.sent = TRUE, !.call = c,
                                     !.port = RequestPort(c.kind),
                                     !.sentContext = ctx, !.target = ChildPid(i)]

Sent(op, i, c, ctx) ==
    [Did(op, i, "", NoResult) EXCEPT !.sent = TRUE, !.call = c,
                                     !.port = RequestPort(c.kind),
                                     !.sentContext = ctx, !.target = ServerNow]

\* the calls in flight once server s has stopped
Orphaned(s) ==
    IF ServerNow = s
    THEN {[c EXCEPT !.answerable = FALSE] : c \in inflight}
    ELSE inflight

\* a validator server that this runtime did not spawn starts on the port
ExtStart ==
    /\ PortFree
    /\ extUp' = TRUE
    /\ last' = Did("extStart", "", "", NoResult)
    /\ UNCHANGED <<instVars, child, inflight>>

\* ... and stops
ExtStop ==
    /\ extUp
    /\ extUp' = FALSE
    /\ inflight' = Orphaned(ExtServer)
    /\ last' = Did("extStop", "", "", NoResult)
    /\ UNCHANGED <<instVars, child>>

\* the child spawned by instance i binds the port
ChildBind(i) ==
    /\ child[i] = "starting"
    /\ PortFree
    /\ child' = [child EXCEPT ![i] = "listening"]
    /\ last' = Did("childBind", i, "", NoResult)
    /\ UNCHANGED <<instVars, extUp, inflight>>

\* the child spawned by instance i exits by itself
ChildExit(i) ==
    /\ child[i] \in {"starting", "listening"}
    /\ child' = [child EXCEPT ![i] = "dead"]
    /\ inflight' = Orphaned(ChildPid(i))
    /\ last' = Did("childExit", i, "", NoResult)
    /\ UNCHANGED <<instVars, extUp>>

(* --------------------------- isValidatorServerUp ----------------------- *)
\* The probe loop. firstOk is the attempt whose probe is the first to get
\* status 200 (0: no probe of this call gets it).
RECURSIVE Probe(_, _)
Probe(attempts, firstOk) ==
    IF attempts < maxRetries
    THEN IF attempts + 1 = firstOk
         THEN [up |-> TRUE, probes |-> attempts + 1]
         ELSE Probe(attempts + 1, firstOk)
    ELSE [up |-> FALSE, probes |-> attempts]

\* (mutant) a loop that probes once more after the last failed attempt
isValidatorServerUpOneMore(firstOk) ==
    LET r == Probe(0, firstOk)
    IN IF r.up THEN r ELSE [r EXCEPT !.probes = @ + 1]

isValidatorServerUp(firstOk) == Probe(0, firstOk)

\* a probe can get status 200 only from a server that listens on the port
ProbeChoices == IF ServerNow # NoServer THEN 0..maxRetries ELSE {0}

(* ------------------------------ startValidator ------------------------- *)
\* (mutant) startValidator() spawns whatever the health check says
StartValidatorAlways(i) ==
    /\ phase[i] = "new"
    /\ \E firstOk \in ProbeChoices :
         /\ process' = [process EXCEPT ![i] = ChildPid(i)]
         /\ child' = [child EXCEPT ![i] = "starting"]
         /\ serverReady' = [serverReady EXCEPT ![i] = FALSE]
         /\ phase' = [phase EXCEPT ![i] = "polling"]
         /\ last' = Checked("startValidator", i, "", isValidatorServerUp(firstOk))
    /\ UNCHANGED <<cliContext, sessionId, keepAliveInterval, pid, activeTimers,
                   extUp, inflight>>

\* startValidator() up to its first suspension on the poll timer
StartValidator(i) ==
    /\ phase[i] = "new"
    /\ \E firstOk \in ProbeChoices :
         LET isRunning == isValidatorServerUp(firstOk) IN
         /\ IF ~isRunning.up
            THEN /\ process' = [process EXCEPT ![i] = ChildPid(i)]
                 /\ child' = [child EXCEPT ![i] = "starting"]
                 /\ serverReady' = [serverReady EXCEPT ![i] = FALSE]
                 /\ phase' = [phase EXCEPT ![i] = "polling"]
            ELSE /\ phase' = [phase EXCEPT ![i] = "started"]
                 /\ UNCHANGED <<process, child, serverReady>>
         /\ last' = Checked("startValidator", i, "", isRunning)
    /\ UNCHANGED <<cliContext, sessionId, keepAliveInterval, pid, activeTimers,
                   extUp, inflight>>

\* the stdout listener sees a readiness marker of the child
StdoutMarker(i) ==
    /\ phase[i] = "polling"
    /\ process[i] # Null
    /\ child[i] = "listening"
    /\ ~serverReady[i]
    /\ serverReady' = [serverReady EXCEPT ![i] = TRUE]
    /\ last' = Did("stdoutMarker", i, "", NoResult)
    /\ UNCHANGED <<cliContext, sessionId, keepAliveInterval, pid, process, phase,
                   activeTimers, child, extUp, inflight>>

\* one tick of the 300 ms poll timer of startValidator()
PollTick(i) ==
    /\ phase[i] = "polling"
    /\ IF serverReady[i]
       THEN IF process[i] = Null
            THEN \* this.process.toString() on null
                 /\ last' = Did("pollTick", i, "TypeError", NoResult)
                 /\ UNCHANGED <<pid, phase, child, inflight>>
            ELSE /\ pid' = [pid EXCEPT ![i] = process[i]]
                 /\ phase' = [phase EXCEPT ![i] = "started"]
                 /\ last' = Did("pollTick", i, "", NoResult)
                 /\ UNCHANGED <<child, inflight>>
       ELSE \E firstOk \in ProbeChoices :
              LET hc == isValidatorServerUp(firstOk) IN
              IF hc.up
              THEN IF process[i] = Null
                   THEN \* this.process.kill() on null
                        /\ last' = Checked("pollTick", i, "TypeError", hc)
                        /\ UNCHANGED <<pid, phase, child, inflight>>
                   ELSE /\ child' = [child EXCEPT ![i] = "dead"]
                        /\ inflight' = Orphaned(ChildPid(i))
                        /\ phase' = [phase EXCEPT ![i] = "started"]
                        /\ last' = Checked("pollTick.kill", i, "", hc)
                        /\ UNCHANGED pid
              ELSE /\ last' = Checked("pollTick", i, "", hc)
                   /\ UNCHANGED <<pid, phase, child, inflight>>
    /\ UNCHANGED <<cliContext, sessionId, keepAliveInterval, process,
                   serverReady, activeTimers, extUp>>

(* --------------------------------- shutdown ---------------------------- *)
\* the fields of an instance that shutdown() reads or writes, with its timers
Fields(i) ==
    [keepAliveInterval |-> keepAliveInterval[i], activeTimers |-> activeTimers[i],
     process |-> process[i], pid |-> pid[i], sessionId |-> sessionId[i]]

\* (mutant) this.pid = this.process?.pid outside the test of this.process
AfterShutdownPidAlways(f) ==
    [keepAliveInterval |-> NoTimer,
     activeTimers |-> IF f.keepAliveInterval # NoTimer
                      THEN f.activeTimers \ {f.keepAliveInterval}
                      ELSE f.activeTimers,
     process |-> Null,
     pid |-> f.process,
     sessionId |-> f.sessionId]

\* (mutant) shutdown() drops the timer handle without clearInterval
AfterShutdownTimerKept(f) ==
    [keepAliveInterval |-> NoTimer,
     activeTimers |-> f.activeTimers,
     process |-> Null,
     pid |-> IF f.process # Null THEN f.process ELSE f.pid,
     sessionId |-> f.sessionId]

\* the fields after shutdown() has run on them
AfterShutdown(f) ==
    [keepAliveInterval |-> NoTimer,
     activeTimers |-> IF f.keepAliveInterval # NoTimer
                      THEN f.activeTimers \ {f.keepAliveInterval}
                      ELSE f.activeTimers,
     process |-> Null,
     pid |-> IF f.process # Null THEN f.process ELSE f.pid,
     sessionId |-> f.sessionId]

\* what shutdown() does to the child process of the instance: it detaches
\* from it (listeners removed, streams destroyed) and sends it no signal
\* (mutant) shutdown() kills the child it spawned
KillOnShutdown(i) ==
    IF process[i] # Null /\ child[i] \in {"starting", "listening"}
    THEN "dead" ELSE child[i]

ChildAfterShutdown(i) == child[i]

shutdown(i) ==
    /\ LET f == AfterShutdown(Fields(i)) IN
         /\ keepAliveInterval' = [keepAliveInterval EXCEPT ![i] = f.keepAliveInterval]
         /\ activeTimers' = [activeTimers EXCEPT ![i] = f.activeTimers]
         /\ process' = [process EXCEPT ![i] = f.process]
         /\ pid' = [pid EXCEPT ![i] = f.pid]
         /\ sessionId' = [sessionId EXCEPT ![i] = f.sessionId]
    /\ child' = [child EXCEPT ![i] = ChildAfterShutdown(i)]
    /\ last' = Did("shutdown", i, "", NoResult)
    /\ UNCHANGED <<cliContext, phase, serverReady, extUp, inflight>>

(* ------------------------------ HTTP calls ----------------------------- *)
Post(i, kind, sid, batchId, isArray, n) ==
    [inst |-> i, kind |-> kind, sessionId |-> sid, batchId |-> batchId,
     isArray |-> isArray, n |-> n, answerable |-> ServerNow # NoServer]

CanPost(c) == c \notin inflight /\ Cardinality(inflight) < MaxInFlight

\* the session ids a response can carry: none, or any id
ResponseSessionIds == SessionIds \cup {Undefined}

(* ------------------------------ startKeepAlive ------------------------- *)
TimerIds == 1..MaxTimers

\* (mutant) startKeepAlive() without the clearInterval of the old handle
ClearedTimersNone(i) == activeTimers[i]

\* the timers of instance i left after clearInterval(this.keepAliveInterval)
ClearedTimers(i) ==
    IF keepAliveInterval[i] # NoTimer
    THEN activeTimers[i] \ {keepAliveInterval[i]}
    ELSE activeTimers[i]

\* the handle setInterval returns: one that names no timer still active
FreshTimers(i) == TimerIds \ ClearedTimers(i)

FreshTimer(i) == CHOOSE t \in FreshTimers(i) : \A u \in FreshTimers(i) : t <= u

startKeepAlive(i) ==
    /\ FreshTimers(i) # {}
    /\ keepAliveInterval' = [keepAliveInterval EXCEPT ![i] = FreshTimer(i)]
    /\ activeTimers' =
         [activeTimers EXCEPT ![i] = ClearedTimers(i) \cup {FreshTimer(i)}]

\* a keep-alive timer of instance i fires: the ping is posted
KeepAliveTick(i) ==
    /\ activeTimers[i] # {}
    /\ LET c == Post(i, "keepalive", sessionId[i], 0, TRUE, 1) IN
         /\ CanPost(c)
         /\ inflight' = inflight \cup {c}
         /\ last' = Sent("keepAlive", i, c, cliContext[i])
    /\ UNCHANGED <<instVars, child, extUp>>

\* the ping is answered with a response carrying session id sid: the
\* response is not read, only a log line is written
KeepAliveResponse(c, sid) ==
    /\ c.kind = "keepalive"
    /\ c.answerable
    /\ inflight' = inflight \ {c}
    /\ last' = [Did("keepAlive.then", c.inst, "", NoResult)
                  EXCEPT !.call = c,
                         !.response = [sessionId |-> sid, outcomes |-> <<>>]]
    /\ UNCHANGED <<instVars, child, extUp>>

(* ------------------------------ initializeSession ---------------------- *)
\* initializeSession() up to the await of the POST; src/src/index.js calls it
\* once startValidator() has resolved
InitializeSession(i) ==
    /\ phase[i] = "started"
    /\ LET c == Post(i, "init", Undefined, 0, TRUE, 1) IN
         /\ CanPost(c)
         /\ inflight' = inflight \cup {c}
         /\ last' = Sent("initializeSession", i, c, cliContext[i])
    /\ UNCHANGED <<instVars, child, extUp>>

InitializeSessionResponse(c) ==
    /\ c.kind = "init"
    /\ c.answerable
    /\ \E sid \in ResponseSessionIds :
         /\ sessionId' = [sessionId EXCEPT ![c.inst] = sid]
         /\ last' = [Did("initializeSession.then", c.inst, "", NoResult)
                       EXCEPT !.call = c,
                              !.response = [sessionId |-> sid, outcomes |-> <<>>]]
    /\ startKeepAlive(c.inst)
    /\ inflight' = inflight \ {c}
    /\ UNCHANGED <<cliContext, pid, process, phase, serverReady, child, extUp>>

\* the error each kind of call raises when its request fails
FailureOf(kind) ==
    CASE kind = "init" -> "Failed to initialize FHIR validation session."
      [] kind = "validate" -> "FHIR validation request failed."
      [] OTHER -> ""

\* the messages of the errors axios rejects with
Underlying == {"connect ECONNREFUSED", "Request failed with status code 500"}

\* (mutant) the catch block logs the failure and throws nothing
CallFailSwallowed(c, u) ==
    /\ inflight' = inflight \ {c}
    /\ last' = [Did(c.kind \o ".catch", c.inst, "", NoResult)
                  EXCEPT !.call = c, !.caught = u]
    /\ UNCHANGED <<instVars, child, extUp>>

\* (mutant) a failed keep-alive ping ends the session and stops the timer
CallFailFatal(c, u) ==
    /\ inflight' = inflight \ {c}
    /\ last' = [Did(c.kind \o ".catch", c.inst, FailureOf(c.kind), NoResult)
                  EXCEPT !.call = c, !.caught = u]
    /\ IF c.kind = "keepalive"
       THEN /\ sessionId' = [sessionId EXCEPT ![c.inst] = Null]
            /\ keepAliveInterval' = [keepAliveInterval EXCEPT ![c.inst] = NoTimer]
            /\ activeTimers' = [activeTimers EXCEPT ![c.inst] = {}]
            /\ UNCHANGED <<cliContext, pid, process, phase, serverReady,
                           child, extUp>>
       ELSE UNCHANGED <<instVars, child, extUp>>

\* the request of a call fails with error u (refused, reset, error status):
\* the catch block of the call logs it and throws its own error, or, for a
\* keep-alive ping, throws nothing
CallFail(c, u) ==
    /\ inflight' = inflight \ {c}
    /\ last' = [Did(c.kind \o ".catch", c.inst, FailureOf(c.kind), NoResult)
                  EXCEPT !.call = c, !.caught = u]
    /\ UNCHANGED <<instVars, child, extUp>>

\* createValidatorInstance(cliContext) of src/src/index.js, from the step l
\* that settles its await of initializeSession(): an error propagates (there
\* is no try/catch) and rejects the promise, otherwise `return validator`
NoInstance == ""

createValidatorInstance(l) ==
    IF l.error # ""
    THEN [rejected |-> TRUE, error |-> l.error, value |-> NoInstance]
    ELSE [rejected |-> FALSE, error |-> "", value |-> l.inst]

(* --------------------------------- validate ---------------------------- *)
\* the synthetic file name `${batchId}_${index}.json`
FileName(batchId, index) == <<batchId, index>>

\* the file names of filesToValidate for a batch of n resources:
\* resource.map(resourceEntry)
FilesToValidate(batchId, n) == [k \in 1..n |-> FileName(batchId, k - 1)]

\* an outcome without a fileInfo property
NoFileInfo == <<0, 0>>

\* the outcome the server computes for file `index` of batch `batchId`: it
\* echoes the file name (or leaves fileInfo out) and carries that file's issues
OutcomeFor(batchId, index, echo) ==
    [fileInfo |-> IF echo THEN FileName(batchId, index) ELSE NoFileInfo,
     issues |-> <<batchId, index>>]

\* what validate() accepts as resource: one resource or a collection
Inputs == {[isArray |-> FALSE, n |-> 1, shape |-> "resource"]} \cup
          {[isArray |-> TRUE, n |-> k, shape |-> "resource"] : k \in 0..MaxItems}

\* resource arguments that are no FHIR resource: validate() called without a
\* resource, and validate("text"); neither is an array, so each is wrapped
\* into an array of one element
MalformedInputs == {[isArray |-> FALSE, n |-> 1, shape |-> sh] :
                      sh \in {"undefined", "string"}}

ProfileArgs == {NoProfiles, <<"p">>}

\* a profiles argument that is no profile URL: validate(resource, null) is
\* no array and is wrapped into [null]
MalformedProfiles == {<<Null>>}

NotInitialized == "Session not initialized. You need to pass a valid CLI context object when creating a new validator instance."

\* crypto.randomUUID(): an id that no call in flight carries
BatchIds == 1..MaxInFlight

\* (mutant) one batch id for every call of the runtime
OneBatchId == CHOOSE b \in BatchIds : \A d \in BatchIds : b <= d

randomUUID ==
    LET free == BatchIds \ {c.batchId : c \in inflight}
    IN CHOOSE b \in free : \A d \in free : b <= d

\* validate() from the normalisation of its arguments to the await of the POST
ValidateSend(i, input, profiles) ==
    IF Len(profiles) > 0 /\ ~cliContext[i].given
    THEN \* cliContext.profiles = profiles on undefined
         /\ last' = Did("validate", i, "TypeError", NoResult)
         /\ UNCHANGED <<instVars, child, extUp, inflight>>
    ELSE /\ Cardinality(inflight) < MaxInFlight
         /\ LET ctx == IF Len(profiles) > 0
                       THEN [cliContext[i] EXCEPT !.profiles = profiles]
                       ELSE cliContext[i]
                c == Post(i, "validate", sessionId[i], randomUUID,
                          input.isArray, input.n)
            IN /\ CanPost(c)
               /\ cliContext' = [cliContext EXCEPT ![i] = ctx]
               /\ inflight' = inflight \cup {c}
               /\ last' = [Sent("validate", i, c, ctx) EXCEPT !.profiles = profiles,
                                                           !.resource = input.shape]
         /\ UNCHANGED <<sessionId, keepAliveInterval, pid, process, phase,
                        serverReady, activeTimers, child, extUp>>

\* (mutant) validate() without the test of this.sessionId
ValidateUnchecked(i, input, profiles) == ValidateSend(i, input, profiles)

\* validate(resource, profiles) up to the await of the POST
Validate(i, input, profiles) ==
    IF Falsy(sessionId[i])
    THEN /\ last' = Did("validate", i, NotInitialized, NoResult)
         /\ UNCHANGED <<instVars, child, extUp, inflight>>
    ELSE ValidateSend(i, input, profiles)

\* (mutant) validate() always returns the collection of outcomes
HandleOutcomesArray(batchId, outs) ==
    IF \E k \in 1..Len(outs) : outs[k].fileInfo = NoFileInfo
    THEN [error |-> "FHIR validation request failed.", anomalies |-> 0,
          result |-> NoResult]
    ELSE LET Mismatch(k) == outs[k].fileInfo # FileName(batchId, k - 1)
         IN [error |-> "",
             anomalies |-> Cardinality({k \in 1..Len(outs) : Mismatch(k)}),
             result |-> [isArray |-> TRUE,
                         items |-> [k \in 1..Len(outs) |->
                                      IF Mismatch(k) THEN outs[k]
                                      ELSE [outs[k] EXCEPT !.fileInfo = NoFileInfo]]]]

\* response.data.outcomes.map(...) and the return statement: the error raised
\* ("" for none), the mismatches logged and the value returned
HandleOutcomes(batchId, outs) ==
    IF \E k \in 1..Len(outs) : outs[k].fileInfo = NoFileInfo
    THEN \* outcome.fileInfo.fileName on undefined, caught by the catch block
         [error |-> "FHIR validation request failed.", anomalies |-> 0,
          result |-> NoResult]
    ELSE LET Mismatch(k) == outs[k].fileInfo # FileName(batchId, k - 1)
             outcomes == [k \in 1..Len(outs) |->
                            IF Mismatch(k) THEN outs[k]
                            ELSE [outs[k] EXCEPT !.fileInfo = NoFileInfo]]
         IN [error |-> "",
             anomalies |-> Cardinality({k \in 1..Len(outs) : Mismatch(k)}),
             result |-> IF Len(outcomes) = 1
                        THEN [isArray |-> FALSE, items |-> outcomes]
                        ELSE [isArray |-> TRUE, items |-> outcomes]]

\* (mutant) this.sessionId = response.data.sessionId without the test
AdoptAny(stored, sid) == sid

\* (mutant) the session id of the response is ignored
AdoptNever(stored, sid) == stored

\* the session id stored after a response carrying sid
Adopt(stored, sid) == IF ~Falsy(sid) /\ sid # stored THEN sid ELSE stored

\* (mutant) the session id is kept in a variable of the module, shared by
\* every instance
ValidateResponseShared(c, sid, outs) ==
    /\ c.kind = "validate"
    /\ c.answerable
    /\ LET h == HandleOutcomes(c.batchId, outs) IN
         /\ sessionId' = [j \in Instances |-> Adopt(sessionId[c.inst], sid)]
         /\ last' = [Did("validate.then", c.inst, h.error, h.result)
                       EXCEPT !.call = c, !.anomalies = h.anomalies,
                              !.response = [sessionId |-> sid, outcomes |-> outs]]
    /\ inflight' = inflight \ {c}
    /\ UNCHANGED <<cliContext, keepAliveInterval, pid, process, phase,
                   serverReady, activeTimers, child, extUp>>

\* the response to a validate() call arrives, carrying session id sid and the
\* outcomes outs
ValidateResponse(c, sid, outs) ==
    /\ c.kind = "validate"
    /\ c.answerable
    /\ LET h == HandleOutcomes(c.batchId, outs) IN
         /\ sessionId' = [sessionId EXCEPT ![c.inst] = Adopt(@, sid)]
         /\ last' = [Did("validate.then", c.inst, h.error, h.result)
                       EXCEPT !.call = c, !.anomalies = h.anomalies,
                              !.response = [sessionId |-> sid, outcomes |-> outs]]
    /\ inflight' = inflight \ {c}
    /\ UNCHANGED <<cliContext, keepAliveInterval, pid, process, phase,
                   serverReady, activeTimers, child, extUp>>

\* the outcomes of the files of call c, in the order of the request
PlainOutcomes(c) == [k \in 1..c.n |-> OutcomeFor(c.batchId, k - 1, TRUE)]

\* every sequence of outcomes a response to call c can carry: outcomes of the
\* files of the request in any order, repeated or left out, up to one more
\* than the request has files, with or without file info
SeqsUpTo(S, n) == UNION {[1..k -> S] : k \in 0..n}

OutcomeSeqs(c) ==
    {[k \in 1..Len(js) |-> OutcomeFor(c.batchId, js[k], echo)] :
        js \in SeqsUpTo(0..(c.n - 1), c.n + 1), echo \in BOOLEAN}

(* ------------------------------- constructor --------------------------- *)
\* the values the constructor lists as "terminology server disabled"
TxServerSentinels == {"n/a", "", "null", "none", "na"}

\* the txServer values a caller passes: absent, null, the listed values,
\* a value that differs from a listed one in case, and a URL
TxServers == TxServerSentinels \cup {Undefined, Null, "N/A", "http://tx.fhir.org/r4"}

\* this.cliContext.txServer after the constructor
normalizeTxServer(tx) ==
    IF ~Falsy(tx) /\ tx \in TxServerSentinels THEN Null ELSE tx

\* new FHIRValidator(cliContext): given is whether cliContext is truthy
Constructor(i, given, tx) ==
    /\ phase[i] = "none"
    /\ cliContext' = [cliContext EXCEPT ![i] =
                        IF given
                        THEN [given |-> TRUE, profiles |-> NoProfiles,
                              txServer |-> normalizeTxServer(tx)]
                        ELSE [given |-> FALSE, profiles |-> NoProfiles,
                              txServer |-> Undefined]]
    /\ sessionId' = [sessionId EXCEPT ![i] = Null]
    /\ keepAliveInterval' = [keepAliveInterval EXCEPT ![i] = NoTimer]
    /\ pid' = [pid EXCEPT ![i] = Null]
    /\ phase' = [phase EXCEPT ![i] = "new"]
    /\ last' = [Did("constructor", i, "", NoResult) EXCEPT !.txServer = tx]
    /\ UNCHANGED <<process, serverReady, activeTimers, child, extUp, inflight>>

(* ------------------------- createValidatorInstance --------------------- *)
\* the await of startValidator() has just resolved for instance i
StartResolved(i) ==
    /\ phase[i] = "started"
    /\ last.inst = i
    /\ last.op \in {"startValidator", "pollTick", "pollTick.kill"}

\* (mutant) createValidatorInstance() without the test of cliContext
AfterStartAlwaysInit(i) == InitializeSession(i)

\* what createValidatorInstance() does once startValidator() has resolved:
\* without a cliContext shutdown() and `return undefined`, with one
\* initializeSession()
AfterStart(i) ==
    IF ~cliContext[i].given THEN shutdown(i) ELSE InitializeSession(i)

(* ------------------------------ specification -------------------------- *)
\* the state after new FHIRValidator(cliContext) for every instance
Init ==
    /\ cliContext = [i \in Instances |->
                       [given |-> TRUE, profiles |-> NoProfiles,
                        txServer |-> Undefined]]
    /\ sessionId = [i \in Instances |-> Null]
    /\ keepAliveInterval = [i \in Instances |-> NoTimer]
    /\ pid = [i \in Instances |-> Null]
    /\ process = [i \in Instances |-> Null]
    /\ phase = [i \in Instances |-> "new"]
    /\ serverReady = [i \in Instances |-> FALSE]
    /\ activeTimers = [i \in Instances |-> {}]
    /\ child = [i \in Instances |-> "none"]
    /\ extUp \in BOOLEAN
    /\ inflight = {}
    /\ last = Did("new", "", "", NoResult)

SingleInput == [isArray |-> FALSE, n |-> 1, shape |-> "resource"]

\* one instance, concurrent callers, every move of the environment
Next ==
    \/ ExtStart
    \/ ExtStop
    \/ ChildBind("v1")
    \/ ChildExit("v1")
    \/ StartValidator("v1")
    \/ StdoutMarker("v1")
    \/ PollTick("v1")
    \/ shutdown("v1")
    \/ KeepAliveTick("v1")
    \/ \E c \in inflight, sid \in ResponseSessionIds : KeepAliveResponse(c, sid)
    \/ InitializeSession("v1")
    \/ \E c \in inflight : InitializeSessionResponse(c)
    \/ \E c \in inflight, u \in Underlying : CallFail(c, u)
    \/ \E profiles \in ProfileArgs : Validate("v1", SingleInput, profiles)
    \/ \E c \in inflight, sid \in ResponseSessionIds :
         ValidateResponse(c, sid, PlainOutcomes(c))

Spec == Init /\ [][Next]_vars

\* Spec with the scheduling the runtime guarantees: an interval timer that
\* is set keeps firing, so the poll callback of startValidator() runs again
\* and again while it is installed. Nothing obliges the environment to
\* start a server or to answer or fail a request.
SpecLive == Spec /\ WF_vars(PollTick("v1"))

\* the caller of SpecTwo and SpecV has no call pending
Idle == inflight = {} /\ \A i \in Instances : phase[i] # "polling"

InitTwo == Init /\ ~extUp

\* two instances, one caller that awaits every call
NextTwo ==
    \/ \E i \in Instances : Idle /\ StartValidator(i)
    \/ \E i \in Instances : ChildBind(i)
    \/ \E i \in Instances : StdoutMarker(i)
    \/ \E i \in Instances : PollTick(i)
    \/ \E i \in Instances : Idle /\ shutdown(i)
    \/ \E i \in Instances : Idle /\ KeepAliveTick(i)
    \/ \E c \in inflight, sid \in ResponseSessionIds : KeepAliveResponse(c, sid)
    \/ \E i \in Instances : Idle /\ InitializeSession(i)
    \/ \E c \in inflight : InitializeSessionResponse(c)
    \/ \E c \in inflight, u \in Underlying : CallFail(c, u)
    \/ \E i \in Instances : Idle /\ Validate(i, SingleInput, NoProfiles)
    \/ \E c \in inflight, sid \in ResponseSessionIds :
         ValidateResponse(c, sid, PlainOutcomes(c))

SpecTwo == InitTwo /\ [][NextTwo]_vars

InitV == Init /\ extUp

\* one instance, a running server, every input and every response
NextV ==
    \/ Idle /\ StartValidator("v1")
    \/ Idle /\ InitializeSession("v1")
    \/ \E c \in inflight : InitializeSessionResponse(c)
    \/ \E c \in inflight, u \in Underlying : CallFail(c, u)
    \/ \E input \in Inputs \cup MalformedInputs,
          profiles \in ProfileArgs \cup MalformedProfiles :
         Idle /\ Validate("v1", input, profiles)
    \/ \E c \in inflight, sid \in ResponseSessionIds :
         \E outs \in OutcomeSeqs(c) : ValidateResponse(c, sid, outs)

SpecV == InitV /\ [][NextV]_vars

\* createValidatorInstance(cliContext) from `new FHIRValidator(cliContext)`
\* on, for every cliContext, then a caller that awaits every call
InitC ==
    /\ cliContext = [i \in Instances |->
                       [given |-> FALSE, profiles |-> NoProfiles,
                        txServer |-> Undefined]]
    /\ sessionId = [i \in Instances |-> Null]
    /\ keepAliveInterval = [i \in Instances |-> NoTimer]
    /\ pid = [i \in Instances |-> Null]
    /\ process = [i \in Instances |-> Null]
    /\ phase = [i \in Instances |-> "none"]
    /\ serverReady = [i \in Instances |-> FALSE]
    /\ activeTimers = [i \in Instances |-> {}]
    /\ child = [i \in Instances |-> "none"]
    /\ extUp \in BOOLEAN
    /\ inflight = {}
    /\ last = Did("new", "", "", NoResult)

NextC ==
    \/ \E given \in BOOLEAN, tx \in TxServers :
         (given \/ tx = Undefined) /\ Constructor("v1", given, tx)
    \/ last.op = "constructor" /\ StartValidator("v1")
    \/ ChildBind("v1")
    \/ StdoutMarker("v1")
    \/ PollTick("v1")
    \/ StartResolved("v1") /\ AfterStart("v1")
    \/ \E c \in inflight : InitializeSessionResponse(c)
    \/ \E c \in inflight, u \in Underlying : CallFail(c, u)
    \/ \E profiles \in ProfileArgs :
         /\ Idle
         /\ ~Falsy(sessionId["v1"])
         /\ Validate("v1", SingleInput, profiles)
    \/ \E c \in inflight, sid \in ResponseSessionIds :
         ValidateResponse(c, sid, PlainOutcomes(c))

SpecC == InitC /\ [][NextC]_vars

(* ================================ claims =============================== *)

\* C1: validate() on an instance whose session id is unset (or falsy) raises
\* 'Session not initialized', sends no HTTP request and leaves the session
\* id, the keep-alive timer and the CLI context as they were.
C1_FailFastWithoutSession ==
    [][(last'.op = "validate" /\ Falsy(sessionId[last'.inst]))
         => /\ last'.error = NotInitialized
            /\ ~last'.sent
            /\ inflight' = inflight
            /\ sessionId' = sessionId
            /\ keepAliveInterval' = keepAliveInterval
            /\ activeTimers' = activeTimers
            /\ cliContext' = cliContext]_vars

C1_Witness ==
    /\ last.op = "validate"
    /\ last.error = NotInitialized
    /\ sessionId["v1"] = Null
    /\ phase["v1"] = "started"
    /\ ServerNow # NoServer

\* C2 (as claimed): a validate() that follows shutdown() on an instance with
\* an initialized session fails fast and sends no request.
C2_FailsFastAfterShutdown ==
    [][(/\ last.op = "shutdown"
        /\ ~Falsy(sessionId[last.inst])
        /\ last'.op = "validate"
        /\ last'.inst = last.inst)
         => (last'.error = NotInitialized /\ ~last'.sent)]_vars

\* C3 (as claimed): once shutdown() has returned on an instance that spawned
\* a child, that child is no longer running.
C3_ChildTerminatedByShutdown ==
    (last.op = "shutdown" /\ child[last.inst] # "none")
        => child[last.inst] = "dead"

C5_ShutdownIdempotent ==
    /\ \A i \in Instances :
         LET once == AfterShutdown(Fields(i)) IN
         /\ once.keepAliveInterval = NoTimer
         /\ once.process = Null
         /\ AfterShutdown(once) = once
    /\ last.op = "shutdown"
         => /\ last.error = ""
            /\ keepAliveInterval[last.inst] = NoTimer
            /\ process[last.inst] = Null
            /\ AfterShutdown(Fields(last.inst)) = Fields(last.inst)

C5_Witness ==
    /\ last.op = "shutdown"
    /\ child[last.inst] = "dead"
    /\ pid[last.inst] = ChildPid(last.inst)
    /\ process[last.inst] = Null
    /\ ~Falsy(sessionId[last.inst])

\* C6: startValidator() spawns a child exactly when its health check found
\* no server responding; when a server responded it spawns nothing and the
\* instance holds no process handle.
C6_SpawnOnlyIfNotRunning ==
    last.op = "startValidator"
        => IF last.healthCheck = "up"
           THEN /\ child[last.inst] = "none"
                /\ process[last.inst] = Null
                /\ phase[last.inst] = "started"
           ELSE /\ last.healthCheck = "down"
                /\ child[last.inst] = "starting"
                /\ process[last.inst] = ChildPid(last.inst)
                /\ phase[last.inst] = "polling"

C6_Witness ==
    /\ last.op = "startValidator"
    /\ last.healthCheck = "up"
    /\ extUp
    /\ process["v1"] = Null

C8_SingleInSingleOut ==
    (/\ last.op = "validate.then"
     /\ ~last.call.isArray
     /\ Len(last.response.outcomes) = 1
     /\ last.response.outcomes[1].fileInfo # NoFileInfo)
        => /\ last.error = ""
           /\ ~last.result.isArray
           /\ last.result.items =
                <<[last.response.outcomes[1] EXCEPT !.fileInfo = NoFileInfo]>>

C8_Witness ==
    /\ last.op = "validate.then"
    /\ ~last.call.isArray
    /\ Len(last.response.outcomes) = 1
    /\ last.error = ""
    /\ ~last.result.isArray
    /\ Len(last.result.items) = 1

\* C9 (as claimed): validate() given a collection of M resources, answered
\* with M outcomes, returns a collection of M outcomes, for every M; it
\* returns a bare outcome only when the input was not a collection.
C9_CollectionInCollectionOut ==
    (last.op = "validate.then" /\ last.error = "")
        => /\ (last.call.isArray /\ Len(last.response.outcomes) = last.call.n)
                => (last.result.isArray /\ Len(last.result.items) = last.call.n)
           /\ ~last.result.isArray => ~last.call.isArray

\* the response lists the outcome of every file of the request exactly once
IsPermutation(c, outs) ==
    /\ Len(outs) = c.n
    /\ \A j \in 0..(c.n - 1) :
         \E k \in 1..Len(outs) : outs[k].fileInfo = FileName(c.batchId, j)

\* C10 (as claimed): when the response lists the outcomes of the request in
\* any order, the outcome returned at position k is the outcome of item k.
C10_ResultInInputOrder ==
    (/\ last.op = "validate.then"
     /\ last.error = ""
     /\ IsPermutation(last.call, last.response.outcomes))
        => \A k \in 1..Len(last.result.items) :
             last.result.items[k].issues = <<last.call.batchId, k - 1>>

\* C11 (as claimed): a response that carries a number of outcomes different
\* from the number of items sent is never returned as if it were complete:
\* validate() raises an error or logs an anomaly.
C11_CountMismatchSurfaced ==
    (/\ last.op = "validate.then"
     /\ Len(last.response.outcomes) # last.call.n)
        => (last.error # "" \/ last.anomalies > 0)

\* C12: a validate() response carrying a non-empty session id different
\* from the stored one replaces the stored id before validate() returns, the
\* call returns the outcomes of the response and raises no error, and every
\* validate and keep-alive request sent carries the id stored when it is sent.
C12_DriftAdopted ==
    [][/\ (/\ last'.op = "validate.then"
            /\ ~Falsy(last'.response.sessionId)
            /\ last'.response.sessionId # sessionId[last'.inst])
             => /\ sessionId'[last'.inst] = last'.response.sessionId
                /\ last'.error = ""
                /\ Len(last'.result.items) = Len(last'.response.outcomes)
       /\ (last'.sent /\ last'.call.kind \in {"validate", "keepalive"})
             => /\ last'.call.sessionId = sessionId[last'.inst]
                /\ sessionId' = sessionId]_vars

\* the response to a validate() sent with S1 carried S2, and S2 is stored
C12_Witness ==
    /\ last.op = "validate.then"
    /\ last.call.sessionId = "S1"
    /\ last.response.sessionId = "S2"
    /\ sessionId[last.inst] = "S2"
    /\ last.error = ""
    /\ Len(last.result.items) = 1

\* C13 (as claimed): every response, to a validate() request or to a
\* keep-alive ping, that carries a session id different from the one its
\* request was sent with leaves that id stored in the instance.
C13_EveryResponseAdopted ==
    [][(/\ last'.op \in {"validate.then", "keepAlive.then"}
        /\ ~Falsy(last'.call.sessionId)
        /\ ~Falsy(last'.response.sessionId)
        /\ last'.response.sessionId # last'.call.sessionId)
         => sessionId'[last'.inst] = last'.response.sessionId]_vars

\* C14 (as claimed): the response to a validate() request that was sent with
\* a session id replaced since, and that echoes that id, does not put the
\* replaced id back.
C14_NoRevert ==
    [][(/\ last'.op = "validate.then"
        /\ ~Falsy(last'.call.sessionId)
        /\ ~Falsy(sessionId[last'.inst])
        /\ last'.call.sessionId # sessionId[last'.inst]
        /\ last'.response.sessionId = last'.call.sessionId)
         => sessionId'[last'.inst] = sessionId[last'.inst]]_vars

\* C15 (as claimed): the failure of the first dispatch of a validate() call
\* does not fail the call: no error is raised and the request is sent again.
C15_FailedDispatchRetried ==
    [][last'.op = "validate.catch"
         => /\ last'.error = ""
            /\ \E c \in inflight' :
                 c.kind = "validate" /\ c.batchId = last'.call.batchId]_vars

\* C16 (as claimed): the error validate() raises for a failed dispatch carries
\* the underlying error: two calls whose dispatches failed with different
\* underlying errors raise different errors.
C16_ErrorCarriesCause ==
    [][(/\ last.op = "validate.catch"
        /\ last'.op = "validate.catch"
        /\ last'.caught # last.caught)
         => last'.error # last.error]_vars

\* C17 (as claimed): a validate() of M items that has settled either raised
\* an error and returned nothing, or returned M outcomes.
C17_WholeBatchOrError ==
    last.op \in {"validate.then", "validate.catch"}
        => \/ last.error # "" /\ last.result = NoResult
           \/ last.error = "" /\ Len(last.result.items) = last.call.n

\* C18 (as claimed): every outcome validate() returns has had its file info
\* removed, whether or not its file name matched the expected one.
C18_FileInfoStripped ==
    (last.op = "validate.then" /\ last.error = "")
        => \A k \in 1..Len(last.result.items) :
             last.result.items[k].fileInfo = NoFileInfo

\* C19 (as claimed): a response with a correlation anomaly (an outcome whose
\* file name is not the one expected at its index, or an outcome without
\* file info) does not abort the batch: validate() raises no error and
\* returns the outcomes of the response.
C19_AnomalyDoesNotAbort ==
    (/\ last.op = "validate.then"
     /\ \E k \in 1..Len(last.response.outcomes) :
          last.response.outcomes[k].fileInfo # FileName(last.call.batchId, k - 1))
        => /\ last.error = ""
           /\ Len(last.result.items) = Len(last.response.outcomes)

\* C20: a failed keep-alive ping raises no error, changes neither the stored
\* session id nor the keep-alive timer (which stays active and fires again),
\* and a validate() that follows it on an instance with a session does not
\* fail with 'Session not initialized'.
C20_KeepAliveFailureNonFatal ==
    [][/\ last'.op = "keepalive.catch"
            => /\ last'.error = ""
               /\ sessionId' = sessionId
               /\ keepAliveInterval' = keepAliveInterval
               /\ activeTimers' = activeTimers
               /\ cliContext' = cliContext
       /\ (/\ last.op = "keepalive.catch"
           /\ ~Falsy(sessionId[last.inst])
           /\ last'.op = "validate"
           /\ last'.inst = last.inst)
            => (last'.error = "" /\ last'.sent)
       /\ (/\ last.op = "keepalive.catch"
           /\ last'.op = "keepAlive")
            => last'.sent]_vars

\* a ping failed on an instance with a session and a running timer
C20_Witness ==
    /\ last.op = "keepalive.catch"
    /\ last.caught \in Underlying
    /\ ~Falsy(sessionId[last.inst])
    /\ keepAliveInterval[last.inst] \in activeTimers[last.inst]

\* C21: when the session-establishing call fails, createValidatorInstance()
\* rejects with an error and resolves to no instance, and the failure
\* changes neither the session id nor the keep-alive timer: on an instance
\* that has had no session, the id is still null and no timer runs.
C21_InitFailureRejects ==
    [][last'.op = "init.catch"
         => /\ createValidatorInstance(last').rejected
            /\ createValidatorInstance(last').error =
                 "Failed to initialize FHIR validation session."
            /\ createValidatorInstance(last').value = NoInstance
            /\ sessionId' = sessionId
            /\ keepAliveInterval' = keepAliveInterval
            /\ activeTimers' = activeTimers]_vars

\* the first initializeSession() of an instance failed
C21_Witness ==
    /\ last.op = "init.catch"
    /\ last.error # ""
    /\ sessionId[last.inst] = Null
    /\ keepAliveInterval[last.inst] = NoTimer
    /\ activeTimers[last.inst] = {}

\* C22 (as claimed): startValidator() whose child has exited without a
\* readiness marker, with no server answering the health check, does not
\* wait forever: it ends (with a startup error) unless a server appears or
\* the caller gives the process handle up meanwhile.
C22_StartupBounded ==
    (/\ phase["v1"] = "polling"
     /\ child["v1"] = "dead"
     /\ process["v1"] # Null
     /\ PortFree)
        ~> (phase["v1"] # "polling" \/ ~PortFree \/ process["v1"] = Null)

\* C23 (as claimed): every validate() request sent to a server that stays
\* up is settled in the end, by a response or by an error, whether or not
\* the server answers it.
C23_ValidateCompletes ==
    \A b \in BatchIds :
        (\E c \in inflight :
            c.kind = "validate" /\ c.batchId = b /\ c.answerable)
            ~> ~(\E c \in inflight :
                    c.kind = "validate" /\ c.batchId = b /\ c.answerable)

\* C24 (as claimed): the cliContext a request carries is the one the
\* instance was created with: a validate() sends profiles only when they
\* were passed to that call, and a keep-alive ping sends none.
C24_CliContextImmutable ==
    (last.sent /\ last.call.kind \in {"validate", "keepalive"})
        => last.sentContext.profiles =
             IF last.call.kind = "validate" THEN last.profiles ELSE NoProfiles

\* C25: the files of a validate() request are named by the batch id and the
\* index of the item; the names of one batch are pairwise distinct, whatever
\* the number of items, and no name of a batch is a name of another batch
\* that is in flight with it. A new batch takes an id no pending batch has.
C25_ValidateCalls == {c \in inflight : c.kind = "validate"}

C27_InstancesIndependent ==
    [][/\ (last'.sent /\ last'.call.kind \in {"validate", "keepalive"})
            => /\ last'.call.inst = last'.inst
               /\ last'.call.sessionId = sessionId[last'.inst]
       /\ \A j \in Instances \ {last'.inst} :
            /\ sessionId'[j] = sessionId[j]
            /\ keepAliveInterval'[j] = keepAliveInterval[j]
            /\ activeTimers'[j] = activeTimers[j]
            /\ pid'[j] = pid[j]
            /\ process'[j] = process[j]]_vars

\* an instance adopted a new session id while the other holds its own
C27_Witness ==
    /\ last.op = "validate.then"
    /\ last.inst = "v2"
    /\ last.call.sessionId = "S1"
    /\ sessionId["v2"] = "S2"
    /\ sessionId["v1"] = "S1"
    /\ keepAliveInterval["v1"] # NoTimer
    /\ keepAliveInterval["v2"] # NoTimer

\* C28 (as claimed): the instance createValidatorInstance() resolves to holds
\* a non-empty session id, and in every state an instance with an active
\* keep-alive timer holds a non-empty session id.
C28_SessionSetWhenAlive ==
    /\ (/\ last.op = "initializeSession.then"
        /\ ~createValidatorInstance(last).rejected)
         => sessionId[createValidatorInstance(last).value] \in SessionIds
    /\ \A i \in Instances :
         activeTimers[i] # {} => sessionId[i] \in SessionIds

C30_MalformedInputRejected ==
    [][\A i \in Instances :
         \A input \in Inputs \cup MalformedInputs,
            profiles \in ProfileArgs \cup MalformedProfiles :
             (/\ input \in MalformedInputs \/ profiles \in MalformedProfiles
              /\ Validate(i, input, profiles))
                 => (~last'.sent /\ last'.error # "")]_vars

\* C31: the poll loop of startValidator() kills the spawned child only when
\* the server answering the health check is another process, never when the
\* answering server is that child with its readiness marker not yet seen.
C31_KillsOnlyWhenOtherAnswers ==
    [][last'.op = "pollTick.kill" => ServerNow # ChildPid(last'.inst)]_vars

\* C32: a health check ends with true at the first probe that gets status
\* 200, ends with false after exactly 10 failed probes, and never makes more
\* than 10 probes.
C32_HealthCheckBounded ==
    /\ last.healthCheck = "up" => last.probes \in 1..10
    /\ last.healthCheck = "down" => last.probes = 10
    /\ \A firstOk \in ProbeChoices :
         LET r == isValidatorServerUp(firstOk) IN
         /\ r.up <=> firstOk \in 1..10
         /\ r.up => r.probes = firstOk
         /\ ~r.up => r.probes = 10

\* a health check gave up after its last probe, and the child was spawned
C32_Witness ==
    /\ last.op = "startValidator"
    /\ last.healthCheck = "down"
    /\ last.probes = 10
    /\ child[last.inst] = "starting"

\* C33: when the poll loop of startValidator() resolves, a server is
\* answering the health check, and when it resolves without the readiness
\* marker the spawned child has been killed.
C33_ResolvesWithServerAnswering ==
    [][(phase["v1"] = "polling" /\ phase'["v1"] = "started")
         => /\ ServerNow' # NoServer
            /\ ~serverReady["v1"] => child'["v1"] = "dead"]_vars

\* C34: an instance never has more than one active keep-alive timer, and an
\* active timer is the one the stored handle names.
C34_AtMostOneTimer ==
    \A i \in Instances :
        /\ Cardinality(activeTimers[i]) <= 1
        /\ activeTimers[i] \subseteq {keepAliveInterval[i]}

\* initializeSession() completed and installed its timer while a ping of an
\* earlier timer of the instance was still in flight
C34_Witness ==
    /\ last.op = "initializeSession.then"
    /\ last.error = ""
    /\ activeTimers["v1"] = {keepAliveInterval["v1"]}
    /\ \E c \in inflight : c.kind = "keepalive" /\ c.inst = "v1"

\* C35: once startValidator() has resolved, a pid that is not null is the
\* process id of the child the instance spawned, and that child emitted the
\* readiness marker: it is never a child the poll loop killed.
C35_PidOfReadyChild ==
    \A i \in Instances :
        (phase[i] = "started" /\ pid[i] # Null)
            => (pid[i] = ChildPid(i) /\ serverReady[i])

\* C36: a session id that is stored stays a session id through every step
\* of validate(), of the keep-alive ping and of shutdown(): a response
\* without a sessionId and a failed request leave it as it was.
C36_SessionIdNeverReset ==
    [][\A i \in Instances :
         (/\ ~Falsy(sessionId[i])
          /\ last'.op \in {"validate", "validate.then", "validate.catch",
                           "keepAlive", "keepAlive.then", "keepalive.catch",
                           "shutdown"})
             => /\ ~Falsy(sessionId'[i])
                /\ (last'.op = "validate.then" /\ Falsy(last'.response.sessionId))
                     => sessionId'[i] = sessionId[i]
                /\ last'.op \in {"validate.catch", "keepalive.catch", "keepAlive",
                                 "keepAlive.then", "shutdown", "validate"}
                     => sessionId'[i] = sessionId[i]]_vars

\* a validate() response without a sessionId arrived at an instance that
\* holds a session id
C36_Witness ==
    /\ last.op = "validate.then"
    /\ last.response.sessionId = Undefined
    /\ sessionId[last.inst] \in SessionIds

\* C37: the constructor turns each of the txServer values 'n/a', '',
\* 'null', 'none' and 'na' into null and leaves every other txServer, and an
\* absent one, as given.
C37_TxServerNormalized ==
    (last.op = "constructor" /\ cliContext[last.inst].given)
        => cliContext[last.inst].txServer =
             IF last.txServer \in {"n/a", "", "null", "none", "na"}
             THEN Null ELSE last.txServer

====
